---- MODULE Spec2Model ----
(***************************************************************************)
(* Pipeline orchestration of sentinews-api: the job controller of app.py   *)
(* (trigger_pipeline / pipeline_task, scheduled_pipeline_run,              *)
(* stop_pipeline), the two stages of pipeline.py and the sqlite store of   *)
(* database.py.                                                            *)
(*                                                                         *)
(* Threads: every admitted run is a thread of its own (the background      *)
(* thread of trigger_pipeline, or the scheduler's job thread); the HTTP    *)
(* handlers run on the server's request threads.  A run advances one       *)
(* checkpoint at a time (one loop iteration, one stage boundary), so every *)
(* interleaving of runs and requests at those boundaries is explored.      *)
(***************************************************************************)
EXTENDS Integers, Sequences, FiniteSets, TLC

VARIABLES
    tracker,        \* app.py pipeline_status_tracker
    events,         \* the threading.Event made for each run: is_set()
    runs,           \* per run: position and locals of pipeline_task /
                    \* scheduled_pipeline_run and of the stage it is in
    links,          \* table links, in rowid order
    articles,       \* table articles, in rowid order
    sentiments,     \* table sentiments: the article_id of each row
    pipeline_runs,  \* table pipeline_runs, in rowid order
    stopper,        \* stop_pipeline between reading stop_event and setting it
    resp,           \* outcome of the last request / scheduler firing
    status_copy,    \* body of the last response, if it was a status query
    resolved,       \* the last call of get_scraper_modules, if the last
                    \* request made one: its argument and what it returned
    world,          \* what the adapters do: anything, or the same thing
                    \* for the same adapter / locator every time
    scrapers_dir,   \* the files scrapers/*_scraper.py, in os.listdir order
    scraper_cache,  \* scraper_manager._scraper_cache, in insertion order
    scans,          \* how many times discover_scrapers has listed the directory
    schedule,       \* app_config['schedule_time'] and the trigger of the
                    \* scheduler's job daily_pipeline_job
    now,            \* the clock, in seconds
    last_run        \* body of the last response, if it was a last-run query

vars == <<tracker, events, runs, links, articles, sentiments, pipeline_runs,
          stopper, resp, status_copy, resolved, world, scrapers_dir,
          scraper_cache, scans, schedule, now, last_run>>

(***************************************************************************)
(* Bounds                                                                  *)
(***************************************************************************)
MaxRuns == 2        \* runs admitted in one behaviour
MaxUrl == 2         \* locators 1..MaxUrl exist on the web
MaxEnt == 1         \* entities the extractor returns for one item
MaxPerCall == 2     \* locators one adapter call returns
MaxNames == 3       \* names in one request of the resolver's specification
MaxFiles == 2       \* files in the scrapers directory
MaxScans == 3       \* listings of the scrapers directory in one behaviour
MaxClock == 2       \* seconds that pass in one behaviour
MaxSpaced == 1      \* runs admitted in one behaviour when triggers are spaced

RunIds == 1..MaxRuns
Urls == 1..MaxUrl

(***************************************************************************)
(* Source registry (scraper_manager): the adapters found at start-up, in   *)
(* the order of the cache's values.                                        *)
(***************************************************************************)
all_scrapers == <<"A", "B">>

Range(s) == {s[k] : k \in 1..Len(s)}

\* a selection that takes every requested name for a registered one
SelectModules_keeps_unknown(names) == names

RECURSIVE SelectModules(_)
SelectModules(names) ==
    IF names = <<>> THEN <<>>
    ELSE IF Head(names) \in Range(all_scrapers)
         THEN <<Head(names)>> \o SelectModules(Tail(names))
         ELSE SelectModules(Tail(names))

\* get_scraper_modules that gives up on a request with an unknown name
get_scraper_modules_strict(sel) ==
    IF ~sel.given THEN all_scrapers
    ELSE IF \A i \in 1..Len(sel.names) : sel.names[i] \in Range(all_scrapers)
         THEN SelectModules(sel.names)
         ELSE <<>>

\* get_scraper_modules(names): names = None gives every adapter
get_scraper_modules(sel) ==
    IF ~sel.given THEN all_scrapers ELSE SelectModules(sel.names)

\* a file of the scrapers directory: what importing it does ("ok", it
\* raises ImportError, or it raises another exception), whether the module
\* has a str SOURCE_NAME and which, and whether get_article_urls and
\* scrape_article_content are functions of it
Candidate(load, has_name, name, has_urls, has_content) ==
    [load |-> load, has_name |-> has_name, name |-> name,
     has_urls |-> has_urls, has_content |-> has_content]
Adapter(name) == Candidate("ok", TRUE, name, TRUE, TRUE)

\* the directory that holds the adapters of all_scrapers
StartDir == [k \in 1..Len(all_scrapers) |-> Adapter(all_scrapers[k])]

Entry(name, file) == [name |-> name, file |-> file]

\* a registration that keeps the module a name already has
Put_first_wins(found, name, file) ==
    IF \E k \in 1..Len(found) : found[k].name = name
    THEN found
    ELSE Append(found, Entry(name, file))

\* discovered_scrapers[source_name] = module: a name already there keeps
\* its place and gets the new module
Put(found, name, file) ==
    IF \E k \in 1..Len(found) : found[k].name = name
    THEN [k \in 1..Len(found) |->
             IF found[k].name = name THEN Entry(name, file) ELSE found[k]]
    ELSE Append(found, Entry(name, file))

\* the hasattr / isinstance / inspect.isfunction test of a loaded module
HasRequired(c) == c.has_name /\ c.has_urls /\ c.has_content

\* the loop over os.listdir from file k on: an ImportError is caught, any
\* other exception of an import leaves the loop and the function
RECURSIVE ScanFrom(_, _, _)
ScanFrom(dir, k, found) ==
    IF k > Len(dir) THEN [raised |-> FALSE, found |-> found]
    ELSE IF dir[k].load = "Error" THEN [raised |-> TRUE, found |-> found]
    ELSE IF dir[k].load = "ImportError" THEN ScanFrom(dir, k + 1, found)
    ELSE IF HasRequired(dir[k])
         THEN ScanFrom(dir, k + 1, Put(found, dir[k].name, k))
         ELSE ScanFrom(dir, k + 1, found)

\* discover_scrapers: the cache if it is truthy, else a scan of the
\* directory whose result becomes the cache
discover_scrapers(code) ==
    LET scan == ScanFrom(scrapers_dir, 1, <<>>) IN
    IF scraper_cache # <<>>
    THEN /\ code = "cached"
         /\ UNCHANGED <<scraper_cache, scans>>
    ELSE /\ scans < MaxScans
         /\ scans' = scans + 1
         /\ IF scan.raised
            THEN /\ code = "raised"
                 /\ UNCHANGED scraper_cache
            ELSE /\ code = "scanned"
                 /\ scraper_cache' = scan.found

(***************************************************************************)
(* JobState                                                                *)
(***************************************************************************)
IdleState ==
    [is_running |-> FALSE, status |-> "Idle", progress |-> 0, total |-> 0,
     current_task |-> "N/A", stop_event |-> 0]

\* what the latest iteration of a stage's loop met (tag), and for an item of
\* the extraction stage the entities the extractor returned and the rows
\* saved for it
Met(tag, n, saved) == [tag |-> tag, n |-> n, saved |-> saved]
Nothing == Met("nothing", 0, 0)

NoCopy == [sent |-> FALSE, body |-> <<>>]
NoCall == [called |-> FALSE, given |-> FALSE, names |-> <<>>, mods |-> <<>>]
AnyWorld == [fixed |-> FALSE, urls |-> <<>>, content |-> <<>>]
NoRow == [sent |-> FALSE, found |-> FALSE, id |-> 0, row |-> <<>>]

\* a time of day as text, character by character
DefaultTime == <<"0", "1", ":", "0", "0">>

\* the process after the start-up of app.py: the adapters discovered,
\* the job daily_pipeline_job added at the stored schedule_time
Started ==
    /\ scrapers_dir = StartDir
    /\ scraper_cache = ScanFrom(StartDir, 1, <<>>).found
    /\ scans = 1
    /\ schedule = [stored |-> DefaultTime, hour |-> 1, minute |-> 0]
    /\ now = 0
    /\ last_run = NoRow

NoRun ==
    [kind |-> "none", pc |-> "none", mods |-> <<>>, i |-> 0,
     new_links_found |-> 0, links_to_scrape |-> <<>>,
     articles_scraped_count |-> 0, articles_to_analyze |-> <<>>,
     sentiments_found_count |-> 0, analyzer |-> "none",
     base |-> {}, base_articles |-> 0, got |-> {}, last |-> Nothing]

DoneRun(kind) == [NoRun EXCEPT !.kind = kind, !.pc = "done"]

\* a fresh process on an empty database
Init ==
    /\ tracker = IdleState
    /\ events = [r \in RunIds |-> FALSE]
    /\ runs = [r \in RunIds |-> NoRun]
    /\ links = <<>>
    /\ articles = <<>>
    /\ sentiments = <<>>
    /\ pipeline_runs = <<>>
    /\ stopper = 0
    /\ resp = [op |-> "none", code |-> "none"]
    /\ status_copy = NoCopy
    /\ resolved = NoCall
    /\ world = AnyWorld
    /\ Started

\* Databases that earlier processes left behind (news_data.db outlives the
\* process): nothing; a link whose fetch failed; a link with its article
\* not yet analysed; the same analysed; two links of two sources, one
\* fetched.
Link(u, src) == [url |-> u, source |-> src]
Article(l, u, t, done) ==
    [link_id |-> l, url |-> u, text |-> t, is_analyzed |-> done]
Stores ==
    { [links |-> <<>>, articles |-> <<>>, sentiments |-> <<>>],
      [links |-> <<Link(1, "A")>>, articles |-> <<>>, sentiments |-> <<>>],
      [links |-> <<Link(1, "A")>>,
       articles |-> <<Article(1, 1, "ok", FALSE)>>, sentiments |-> <<>>],
      [links |-> <<Link(1, "A")>>,
       articles |-> <<Article(1, 1, "ok", TRUE)>>, sentiments |-> <<1>>],
      [links |-> <<Link(2, "B"), Link(1, "A")>>,
       articles |-> <<Article(2, 1, "ok", FALSE)>>, sentiments |-> <<>>] }

\* a fresh process on a database of Stores
InitStored ==
    /\ tracker = IdleState
    /\ events = [r \in RunIds |-> FALSE]
    /\ runs = [r \in RunIds |-> NoRun]
    /\ \E db \in Stores :
          /\ links = db.links
          /\ articles = db.articles
          /\ sentiments = db.sentiments
    /\ pipeline_runs = <<>>
    /\ stopper = 0
    /\ resp = [op |-> "none", code |-> "none"]
    /\ status_copy = NoCopy
    /\ resolved = NoCall
    /\ world = AnyWorld
    /\ Started

FreeIds == {r \in RunIds : runs[r].kind = "none"}
NewId == CHOOSE r \in FreeIds : \A q \in FreeIds : r <= q

Admit(kind, mods) ==
    [NoRun EXCEPT !.kind = kind, !.pc = "set_running", !.mods = mods]

(***************************************************************************)
(* Request handlers of app.py                                              *)
(***************************************************************************)
\* trigger_pipeline without its is_running check
trigger_pipeline_unchecked(sel, code) ==
    IF get_scraper_modules(sel) = <<>>
    THEN /\ code = "400"
         /\ UNCHANGED <<tracker, events, runs, links, articles, sentiments,
                        pipeline_runs, stopper>>
    ELSE /\ FreeIds # {}
         /\ runs' = [runs EXCEPT ![NewId] =
                        Admit("manual", get_scraper_modules(sel))]
         /\ code = "202"
         /\ UNCHANGED <<tracker, events, links, articles, sentiments,
                        pipeline_runs, stopper>>

\* POST /api/trigger_pipeline
trigger_pipeline(sel, code) ==
    IF tracker.is_running
    THEN /\ code = "409"
         /\ UNCHANGED <<tracker, events, runs, links, articles, sentiments,
                        pipeline_runs, stopper>>
    ELSE IF get_scraper_modules(sel) = <<>>
    THEN /\ code = "400"
         /\ UNCHANGED <<tracker, events, runs, links, articles, sentiments,
                        pipeline_runs, stopper>>
    ELSE /\ FreeIds # {}
         /\ runs' = [runs EXCEPT ![NewId] =
                        Admit("manual", get_scraper_modules(sel))]
         /\ code = "202"
         /\ UNCHANGED <<tracker, events, links, articles, sentiments,
                        pipeline_runs, stopper>>

\* scheduled_pipeline_run without its is_running check
scheduled_pipeline_run_unchecked(code) ==
    /\ \A r \in RunIds : runs[r].kind = "sched" => runs[r].pc = "done"
    /\ FreeIds # {}
    /\ runs' = [runs EXCEPT ![NewId] =
                   Admit("sched", get_scraper_modules(
                            [given |-> FALSE, names |-> <<>>]))]
    /\ code = "started"
    /\ UNCHANGED <<tracker, events, links, articles, sentiments,
                   pipeline_runs, stopper>>

\* the scheduler fires daily_pipeline_job (one instance at a time)
scheduled_pipeline_run(code) ==
    /\ \A r \in RunIds : runs[r].kind = "sched" => runs[r].pc = "done"
    /\ IF tracker.is_running
       THEN /\ code = "skipped"
            /\ UNCHANGED <<tracker, events, runs, links, articles, sentiments,
                           pipeline_runs, stopper>>
       ELSE /\ FreeIds # {}
            /\ runs' = [runs EXCEPT ![NewId] =
                           Admit("sched", get_scraper_modules(
                                    [given |-> FALSE, names |-> <<>>]))]
            /\ code = "started"
            /\ UNCHANGED <<tracker, events, links, articles, sentiments,
                           pipeline_runs, stopper>>

\* POST /api/stop_pipeline, up to the read of the tracker's stop_event
stop_pipeline_check(code) ==
    /\ stopper = 0
    /\ IF ~tracker.is_running
       THEN /\ code = "404"
            /\ UNCHANGED stopper
       ELSE IF tracker.stop_event = 0
       THEN /\ code = "500"
            /\ UNCHANGED stopper
       ELSE /\ stopper' = tracker.stop_event
            /\ code = "pending"
    /\ UNCHANGED <<tracker, events, runs, links, articles, sentiments,
                   pipeline_runs>>

\* POST /api/stop_pipeline: stop_event.set(), status, 202
stop_pipeline_set(code) ==
    /\ stopper # 0
    /\ events' = [events EXCEPT ![stopper] = TRUE]
    /\ tracker' = [tracker EXCEPT !.status = "Stopping..."]
    /\ code = "202"
    /\ stopper' = 0
    /\ UNCHANGED <<runs, links, articles, sentiments, pipeline_runs>>

(***************************************************************************)
(* Store (database.py)                                                     *)
(***************************************************************************)
\* add_link on a table without the UNIQUE constraint
add_link_not_unique(ls, url, source) ==
    Append(ls, [url |-> url, source |-> source])

\* add_link: INSERT into links, url UNIQUE; a duplicate is ignored
add_link(ls, url, source) ==
    IF \E k \in 1..Len(ls) : ls[k].url = url
    THEN ls
    ELSE Append(ls, [url |-> url, source |-> source])

\* the loop "for url in urls: if database.add_link(...)" of one adapter
RECURSIVE AddLinks(_, _, _)
AddLinks(ls, urls, source) ==
    IF urls = <<>> THEN ls
    ELSE AddLinks(add_link(ls, Head(urls), source), Tail(urls), source)

\* add_article on a table without the UNIQUE constraint on url
add_article_not_unique(arts, link_id, data) ==
    Append(arts, [link_id |-> link_id, url |-> data.url,
                  text |-> data.text, is_analyzed |-> FALSE])

\* add_article: INSERT into articles, url UNIQUE; a duplicate is ignored
add_article(arts, link_id, data) ==
    IF \E k \in 1..Len(arts) : arts[k].url = data.url
    THEN arts
    ELSE Append(arts, [link_id |-> link_id, url |-> data.url,
                       text |-> data.text, is_analyzed |-> FALSE])

RECURSIVE IdsWhere(_, _, _)
IdsWhere(n, k, ok) ==
    IF k > n THEN <<>>
    ELSE (IF k \in ok THEN <<k>> ELSE <<>>) \o IdsWhere(n, k + 1, ok)

\* a selection of the references added since the last recorded run only:
\* those that come after as many references as the summaries count
get_unscraped_links_new_only ==
    LET RECURSIVE Counted(_)
        Counted(n) == IF n = 0 THEN 0
                      ELSE pipeline_runs[n].new_links_found + Counted(n - 1)
    IN
    IdsWhere(Len(links), 1,
             {k \in 1..Len(links) :
                 /\ k > Counted(Len(pipeline_runs))
                 /\ ~\E a \in 1..Len(articles) : articles[a].link_id = k})

\* get_unscraped_links: links LEFT JOIN articles WHERE a.id IS NULL
get_unscraped_links ==
    IdsWhere(Len(links), 1,
             {k \in 1..Len(links) :
                 ~\E a \in 1..Len(articles) : articles[a].link_id = k})

\* get_unanalyzed_articles without "is_analyzed = 0" in its WHERE clause
get_unanalyzed_articles_any ==
    IdsWhere(Len(articles), 1,
             {a \in 1..Len(articles) : articles[a].text # "N/A"})

\* get_unanalyzed_articles: is_analyzed = 0 AND cleaned_text IS NOT NULL
\* AND cleaned_text != "N/A".  A cleaned_text is "ok" (some text), "" (the
\* empty string, which menabytes and gulfnews store for a page without
\* body) or "N/A" (what zawya stores for such a page).
get_unanalyzed_articles ==
    IdsWhere(Len(articles), 1,
             {a \in 1..Len(articles) :
                 ~articles[a].is_analyzed /\ articles[a].text # "N/A"})

\* add_pipeline_run: one row stamped with the clock's second; missing keys
\* default to 0 / 'Completed'
add_pipeline_run(r, nl, na, ne, status) ==
    Append(pipeline_runs,
           [run |-> r, run_timestamp |-> now, new_links_found |-> nl,
            articles_scraped |-> na, entities_analyzed |-> ne,
            status |-> status])

RECURSIVE Repeat(_, _)
Repeat(x, n) == IF n = 0 THEN <<>> ELSE <<x>> \o Repeat(x, n - 1)

(***************************************************************************)
(* Job controller: what follows the acquisition stage, and the status of   *)
(* the summary                                                             *)
(***************************************************************************)
\* pipeline_task runs the analysis only "if not stop_event.is_set()";
\* scheduled_pipeline_run calls it unconditionally
after_scraping(kind, is_set) ==
    IF kind = "manual" /\ is_set THEN "finalize" ELSE "analysis_init"

\* pipeline_task: "Stopped by user" if stop_event.is_set();
\* scheduled_pipeline_run never changes run_status
run_status(kind, is_set) ==
    IF kind = "manual" /\ is_set THEN "Stopped by user" ELSE "Completed"
\* get_pipeline_status without the pop of "stop_event"
get_pipeline_status_whole ==
    /\ status_copy' = [sent |-> TRUE, body |-> tracker]
    /\ UNCHANGED <<tracker, events, runs, links, articles, sentiments,
                   pipeline_runs, stopper>>

\* GET /api/pipeline_status: status_copy = pipeline_status_tracker.copy();
\* status_copy.pop("stop_event", None); the copy is the response
get_pipeline_status ==
    /\ status_copy' =
           [sent |-> TRUE,
            body |-> [k \in DOMAIN tracker \ {"stop_event"} |-> tracker[k]]]
    /\ UNCHANGED <<tracker, events, runs, links, articles, sentiments,
                   pipeline_runs, stopper>>

\* GET /api/pipeline_last_run: SELECT * FROM pipeline_runs ORDER BY
\* run_timestamp DESC LIMIT 1, the row with id k.  SQL leaves the order of
\* rows with equal run_timestamp open, so k is any row of the latest second.
get_last_run_stats(k, code) ==
    /\ IF pipeline_runs = <<>>
       THEN /\ k = 0
            /\ code = "404"
            /\ last_run' = [sent |-> TRUE, found |-> FALSE, id |-> 0,
                            row |-> <<>>]
       ELSE /\ k \in 1..Len(pipeline_runs)
            /\ \A j \in 1..Len(pipeline_runs) :
                  pipeline_runs[j].run_timestamp <=
                      pipeline_runs[k].run_timestamp
            /\ code = "200"
            /\ last_run' = [sent |-> TRUE, found |-> TRUE, id |-> k,
                            row |-> pipeline_runs[k]]
    /\ UNCHANGED <<tracker, events, runs, links, articles, sentiments,
                   pipeline_runs, stopper>>

\* the body of a schedule request: no schedule_time, a schedule_time that
\* is text, or a schedule_time that is a truthy value of another type
NoTime == [given |-> FALSE, is_text |-> FALSE, text |-> <<>>]
Text(t) == [given |-> TRUE, is_text |-> TRUE, text |-> t]
NotText == [given |-> TRUE, is_text |-> FALSE, text |-> <<>>]

Digits == {"0", "1", "2", "3", "4", "5", "6", "7", "8", "9"}
DigitValue ==
    [c \in Digits |->
        CASE c = "0" -> 0 [] c = "1" -> 1 [] c = "2" -> 2 [] c = "3" -> 3
          [] c = "4" -> 4 [] c = "5" -> 5 [] c = "6" -> 6 [] c = "7" -> 7
          [] c = "8" -> 8 [] c = "9" -> 9]

\* re.match(r'^([01]\d|2[0-3]):([0-5]\d)$', t): five characters, and after
\* them nothing or (as $ allows) one final newline
TimeMatches(t) ==
    /\ \/ Len(t) = 5
       \/ Len(t) = 6 /\ t[6] = "\n"
    /\ \/ t[1] \in {"0", "1"} /\ t[2] \in Digits
       \/ t[1] = "2" /\ t[2] \in {"0", "1", "2", "3"}
    /\ t[3] = ":"
    /\ t[4] \in {"0", "1", "2", "3", "4", "5"}
    /\ t[5] \in Digits

\* hour, minute = map(int, new_time.split(':')) of a text that matches;
\* int() ignores the final newline
HourOf(t) == 10 * DigitValue[t[1]] + DigitValue[t[2]]
MinuteOf(t) == 10 * DigitValue[t[4]] + DigitValue[t[5]]

\* POST /api/configure_schedule; store_raises: set_config_value raises;
\* job_raises: scheduler.reschedule_job raises
configure_schedule(inp, store_raises, job_raises, code) ==
    IF ~inp.given \/ (inp.is_text /\ inp.text = <<>>)
    THEN /\ code = "400"
         /\ UNCHANGED schedule
    ELSE IF ~inp.is_text
    THEN /\ code = "500"
         /\ UNCHANGED schedule
    ELSE IF ~TimeMatches(inp.text)
    THEN /\ code = "400"
         /\ UNCHANGED schedule
    ELSE IF store_raises
    THEN /\ code = "500"
         /\ UNCHANGED schedule
    ELSE IF job_raises
    THEN /\ code = "500"
         /\ schedule' = [schedule EXCEPT !.stored = inp.text]
    ELSE /\ code = "200"
         /\ schedule' = [stored |-> inp.text, hour |-> HourOf(inp.text),
                         minute |-> MinuteOf(inp.text)]

(***************************************************************************)
(* Steps of a run                                                          *)
(***************************************************************************)
\* pipeline_status_tracker["is_running"] = True
SetRunning(r) ==
    /\ runs[r].pc = "set_running"
    /\ tracker' = [tracker EXCEPT !.is_running = TRUE]
    /\ runs' = [runs EXCEPT ![r].pc = "set_event"]
    /\ UNCHANGED <<events, links, articles, sentiments, pipeline_runs,
                   stopper>>

\* pipeline_status_tracker["stop_event"] = stop_event
SetEvent(r) ==
    /\ runs[r].pc = "set_event"
    /\ tracker' = [tracker EXCEPT !.stop_event = r]
    /\ runs' = [runs EXCEPT ![r].pc = "scrape_init"]
    /\ UNCHANGED <<events, links, articles, sentiments, pipeline_runs,
                   stopper>>

\* the set-up without progress and total in its update
ScrapeInit_no_reset(r) ==
    /\ runs[r].pc = "scrape_init"
    /\ tracker' = [tracker EXCEPT !.status = "Scraping links",
                                  !.current_task = "lists"]
    /\ runs' = [runs EXCEPT ![r].pc = "link_loop", ![r].i = 0,
                            ![r].new_links_found = 0,
                            ![r].base = {links[k].url : k \in 1..Len(links)},
                            ![r].base_articles = Len(articles),
                            ![r].got = {}]
    /\ UNCHANGED <<events, links, articles, sentiments, pipeline_runs,
                   stopper>>

\* run_scraping_pipeline, step 1 set-up
ScrapeInit(r) ==
    /\ runs[r].pc = "scrape_init"
    /\ tracker' = [tracker EXCEPT !.status = "Scraping links",
                                  !.progress = 0,
                                  !.total = Len(runs[r].mods),
                                  !.current_task = "lists"]
    /\ runs' = [runs EXCEPT ![r].pc = "link_loop", ![r].i = 0,
                            ![r].new_links_found = 0,
                            ![r].base = {links[k].url : k \in 1..Len(links)},
                            ![r].base_articles = Len(articles),
                            ![r].got = {}]
    /\ UNCHANGED <<events, links, articles, sentiments, pipeline_runs,
                   stopper>>

\* the loop body without its try / except: an exception of get_article_urls
\* leaves the stage
LinkIter_uncaught(r, out) ==
    LET me == runs[r]
        source == me.mods[me.i + 1]
        after == AddLinks(links, out.urls, source)
    IN
    /\ me.pc = "link_loop"
    /\ me.i < Len(me.mods)
    /\ IF events[r]
       THEN /\ tracker' = [tracker EXCEPT !.status = "Stopping..."]
            /\ runs' = [runs EXCEPT
                           ![r].pc = after_scraping(me.kind, events[r]),
                           ![r].last = Met("stop", 0, 0)]
            /\ UNCHANGED links
       ELSE IF out.raise
       THEN /\ tracker' = [tracker EXCEPT !.current_task = "links",
                                          !.progress = me.i + 1]
            /\ runs' = [runs EXCEPT ![r].pc = "except",
                                    ![r].last = Met("raise", 0, 0)]
            /\ UNCHANGED links
       ELSE IF out.urls = <<>>
       THEN /\ tracker' = [tracker EXCEPT !.current_task = "links"]
            /\ runs' = [runs EXCEPT ![r].i = me.i + 1,
                                    ![r].last = Met("empty", 0, 0)]
            /\ UNCHANGED links
       ELSE /\ links' = after
            /\ tracker' = [tracker EXCEPT !.current_task = "links",
                                          !.progress = me.i + 1]
            /\ runs' = [runs EXCEPT
                           ![r].i = me.i + 1,
                           ![r].new_links_found =
                               me.new_links_found + Len(after) - Len(links),
                           ![r].got = me.got \cup Range(out.urls),
                           ![r].last = Met("urls", 0, 0)]
    /\ UNCHANGED <<events, articles, sentiments, pipeline_runs, stopper>>

\* one iteration of "for i, scraper in enumerate(scraper_modules)";
\* out is what get_article_urls does this time
LinkIter(r, out) ==
    LET me == runs[r]
        source == me.mods[me.i + 1]
        after == AddLinks(links, out.urls, source)
    IN
    /\ me.pc = "link_loop"
    /\ me.i < Len(me.mods)
    /\ IF events[r]
       THEN /\ tracker' = [tracker EXCEPT !.status = "Stopping..."]
            /\ runs' = [runs EXCEPT
                           ![r].pc = after_scraping(me.kind, events[r]),
                           ![r].last = Met("stop", 0, 0)]
            /\ UNCHANGED links
       ELSE IF out.raise
       THEN /\ tracker' = [tracker EXCEPT !.current_task = "links",
                                          !.progress = me.i + 1]
            /\ runs' = [runs EXCEPT ![r].i = me.i + 1,
                                    ![r].last = Met("raise", 0, 0)]
            /\ UNCHANGED links
       ELSE IF out.urls = <<>>
       THEN /\ tracker' = [tracker EXCEPT !.current_task = "links"]
            /\ runs' = [runs EXCEPT ![r].i = me.i + 1,
                                    ![r].last = Met("empty", 0, 0)]
            /\ UNCHANGED links
       ELSE /\ links' = after
            /\ tracker' = [tracker EXCEPT !.current_task = "links",
                                          !.progress = me.i + 1]
            /\ runs' = [runs EXCEPT
                           ![r].i = me.i + 1,
                           ![r].new_links_found =
                               me.new_links_found + Len(after) - Len(links),
                           ![r].got = me.got \cup Range(out.urls),
                           ![r].last = Met("urls", 0, 0)]
    /\ UNCHANGED <<events, articles, sentiments, pipeline_runs, stopper>>

\* a step 2 set-up whose update leaves the progress of step 1 in place
ArticlesInit_keeps_progress(r, fault) ==
    LET me == runs[r]
        todo == get_unscraped_links
    IN
    /\ me.pc = "link_loop"
    /\ me.i = Len(me.mods)
    /\ IF events[r]
       THEN /\ runs' = [runs EXCEPT
                           ![r].pc = after_scraping(me.kind, events[r])]
            /\ UNCHANGED tracker
       ELSE IF fault
       THEN /\ runs' = [runs EXCEPT ![r].pc = "except"]
            /\ UNCHANGED tracker
       ELSE /\ tracker' = [tracker EXCEPT
                              !.status = "Scraping articles",
                              !.total = Len(todo),
                              !.current_task =
                                  IF todo = <<>> THEN "none_scrape" ELSE @]
            /\ runs' = [runs EXCEPT
                           ![r].links_to_scrape = todo, ![r].i = 0,
                           ![r].articles_scraped_count = 0,
                           ![r].pc = IF todo = <<>>
                                     THEN after_scraping(me.kind, events[r])
                                     ELSE "article_loop"]
    /\ UNCHANGED <<events, links, articles, sentiments, pipeline_runs,
                   stopper>>

\* run_scraping_pipeline, step 2 set-up; fault: get_unscraped_links raises
ArticlesInit(r, fault) ==
    LET me == runs[r]
        todo == get_unscraped_links
    IN
    /\ me.pc = "link_loop"
    /\ me.i = Len(me.mods)
    /\ IF events[r]
       THEN /\ runs' = [runs EXCEPT
                           ![r].pc = after_scraping(me.kind, events[r])]
            /\ UNCHANGED tracker
       ELSE IF fault
       THEN /\ runs' = [runs EXCEPT ![r].pc = "except"]
            /\ UNCHANGED tracker
       ELSE /\ tracker' = [tracker EXCEPT
                              !.status = "Scraping articles",
                              !.progress = 0, !.total = Len(todo),
                              !.current_task =
                                  IF todo = <<>> THEN "none_scrape" ELSE @]
            /\ runs' = [runs EXCEPT
                           ![r].links_to_scrape = todo, ![r].i = 0,
                           ![r].articles_scraped_count = 0,
                           ![r].pc = IF todo = <<>>
                                     THEN after_scraping(me.kind, events[r])
                                     ELSE "article_loop"]
    /\ UNCHANGED <<events, links, articles, sentiments, pipeline_runs,
                   stopper>>

\* a lookup that falls back to some selected adapter
scraper_map_get_any(mods, source) == TRUE

\* scraper_map.get(link['source']) is truthy: an adapter of that name is
\* among the selected ones
scraper_map_get(mods, source) == source \in Range(mods)

\* the loop body without "if stop_event.is_set(): ... break"
ArticleIter_unchecked(r, out) ==
    LET me == runs[r]
        link_id == me.links_to_scrape[me.i + 1]
        known == scraper_map_get(me.mods, links[link_id].source)
        stored == known /\ out.kind = "data"
        last == me.i + 1 = Len(me.links_to_scrape)
    IN
    /\ me.pc = "article_loop"
    /\ me.i < Len(me.links_to_scrape)
    /\ articles' = IF stored
                   THEN add_article(articles, link_id, out)
                   ELSE articles
    /\ tracker' = [tracker EXCEPT
                      !.current_task = IF stored THEN "scraped" ELSE @,
                      !.progress = me.i + 1]
    /\ runs' = [runs EXCEPT
                   ![r].i = me.i + 1,
                   ![r].articles_scraped_count =
                       IF stored THEN @ + 1 ELSE @,
                   ![r].last = Met(IF known THEN out.kind
                                            ELSE "skip", 0, 0),
                   ![r].pc = IF last
                             THEN after_scraping(me.kind, events[r])
                             ELSE "article_loop"]
    /\ UNCHANGED <<events, links, sentiments, pipeline_runs, stopper>>

\* one iteration of "for i, link in enumerate(links_to_scrape)";
\* out is what scrape_article_content does this time
ArticleIter(r, out) ==
    LET me == runs[r]
        link_id == me.links_to_scrape[me.i + 1]
        known == scraper_map_get(me.mods, links[link_id].source)
        stored == known /\ out.kind = "data"
        last == me.i + 1 = Len(me.links_to_scrape)
    IN
    /\ me.pc = "article_loop"
    /\ me.i < Len(me.links_to_scrape)
    /\ IF events[r]
       THEN /\ tracker' = [tracker EXCEPT !.status = "Stopping..."]
            /\ runs' = [runs EXCEPT
                           ![r].pc = after_scraping(me.kind, events[r]),
                           ![r].last = Met("stop", 0, 0)]
            /\ UNCHANGED articles
       ELSE /\ articles' = IF stored
                           THEN add_article(articles, link_id, out)
                           ELSE articles
            /\ tracker' = [tracker EXCEPT
                              !.current_task = IF stored THEN "scraped" ELSE @,
                              !.progress = me.i + 1]
            /\ runs' = [runs EXCEPT
                           ![r].i = me.i + 1,
                           ![r].articles_scraped_count =
                               IF stored THEN @ + 1 ELSE @,
                           ![r].last = Met(IF known THEN out.kind
                                                    ELSE "skip", 0, 0),
                           ![r].pc = IF last
                                     THEN after_scraping(me.kind, events[r])
                                     ELSE "article_loop"]
    /\ UNCHANGED <<events, links, sentiments, pipeline_runs, stopper>>

\* the set-up with a selection that loses its first item
AnalysisInit_drops_one(r, ok, fault) ==
    LET me == runs[r]
        todo == IF get_unanalyzed_articles = <<>> THEN <<>>
                ELSE Tail(get_unanalyzed_articles)
    IN
    /\ me.pc = "analysis_init"
    /\ IF ~ok
       THEN /\ tracker' = [tracker EXCEPT !.status = "Error"]
            /\ runs' = [runs EXCEPT ![r].pc = "finalize",
                                    ![r].analyzer = "failed"]
       ELSE IF fault
       THEN /\ runs' = [runs EXCEPT ![r].pc = "except",
                                    ![r].analyzer = "ok"]
            /\ UNCHANGED tracker
       ELSE /\ tracker' = [tracker EXCEPT
                              !.status = "Analyzing sentiment",
                              !.progress = 0, !.total = Len(todo),
                              !.current_task =
                                  IF todo = <<>> THEN "none_analyze" ELSE @]
            /\ runs' = [runs EXCEPT
                           ![r].articles_to_analyze = todo, ![r].i = 0,
                           ![r].sentiments_found_count = 0,
                           ![r].analyzer = "ok",
                           ![r].pc = IF todo = <<>> THEN "finalize"
                                     ELSE "analysis_loop"]
    /\ UNCHANGED <<events, links, articles, sentiments, pipeline_runs,
                   stopper>>

\* run_analysis_pipeline set-up; ok: SentimentAnalyzer(**kwargs) succeeds;
\* fault: get_unanalyzed_articles raises
AnalysisInit(r, ok, fault) ==
    LET me == runs[r]
        todo == get_unanalyzed_articles
    IN
    /\ me.pc = "analysis_init"
    /\ IF ~ok
       THEN /\ tracker' = [tracker EXCEPT !.status = "Error"]
            /\ runs' = [runs EXCEPT ![r].pc = "finalize",
                                    ![r].analyzer = "failed"]
       ELSE IF fault
       THEN /\ runs' = [runs EXCEPT ![r].pc = "except",
                                    ![r].analyzer = "ok"]
            /\ UNCHANGED tracker
       ELSE /\ tracker' = [tracker EXCEPT
                              !.status = "Analyzing sentiment",
                              !.progress = 0, !.total = Len(todo),
                              !.current_task =
                                  IF todo = <<>> THEN "none_analyze" ELSE @]
            /\ runs' = [runs EXCEPT
                           ![r].articles_to_analyze = todo, ![r].i = 0,
                           ![r].sentiments_found_count = 0,
                           ![r].analyzer = "ok",
                           ![r].pc = IF todo = <<>> THEN "finalize"
                                     ELSE "analysis_loop"]
    /\ UNCHANGED <<events, links, articles, sentiments, pipeline_runs,
                   stopper>>

\* the loop body without its try / except: an exception of one item leaves
\* the stage
AnalysisIter_uncaught(r, out) ==
    LET me == runs[r]
        id == me.articles_to_analyze[me.i + 1]
        last == me.i + 1 = Len(me.articles_to_analyze)
        raised == out.store_raises
    IN
    /\ me.pc = "analysis_loop"
    /\ me.i < Len(me.articles_to_analyze)
    /\ IF events[r]
       THEN /\ tracker' = [tracker EXCEPT !.status = "Stopping..."]
            /\ runs' = [runs EXCEPT ![r].pc = "finalize",
                                    ![r].last = Met("stop", 0, 0)]
            /\ UNCHANGED <<articles, sentiments>>
       ELSE /\ sentiments' = sentiments \o Repeat(id, out.saved)
            /\ articles' = IF ~raised
                           THEN [articles EXCEPT ![id].is_analyzed = TRUE]
                           ELSE articles
            /\ tracker' = [tracker EXCEPT
                              !.current_task = "analyzing",
                              !.progress = IF raised THEN @ ELSE me.i + 1]
            /\ runs' = [runs EXCEPT
                           ![r].i = me.i + 1,
                           ![r].sentiments_found_count = @ + out.saved,
                           ![r].last =
                               Met(IF out.store_raises
                                   THEN "store_raise" ELSE "done",
                                   out.n, out.saved),
                           ![r].pc = IF raised THEN "except"
                                     ELSE IF last THEN "finalize"
                                     ELSE "analysis_loop"]
    /\ UNCHANGED <<events, links, pipeline_runs, stopper>>

\* one iteration of "for i, article in enumerate(articles_to_analyze)";
\* out is what the extractor and the store do for this item: the item is
\* marked analysed only if no call of the iteration raised
AnalysisIter(r, out) ==
    LET me == runs[r]
        id == me.articles_to_analyze[me.i + 1]
        last == me.i + 1 = Len(me.articles_to_analyze)
        marked == ~out.store_raises
    IN
    /\ me.pc = "analysis_loop"
    /\ me.i < Len(me.articles_to_analyze)
    /\ IF events[r]
       THEN /\ tracker' = [tracker EXCEPT !.status = "Stopping..."]
            /\ runs' = [runs EXCEPT ![r].pc = "finalize",
                                    ![r].last = Met("stop", 0, 0)]
            /\ UNCHANGED <<articles, sentiments>>
       ELSE /\ sentiments' = sentiments \o Repeat(id, out.saved)
            /\ articles' = IF marked
                           THEN [articles EXCEPT ![id].is_analyzed = TRUE]
                           ELSE articles
            /\ tracker' = [tracker EXCEPT !.current_task = "analyzing",
                                          !.progress = me.i + 1]
            /\ runs' = [runs EXCEPT
                           ![r].i = me.i + 1,
                           ![r].sentiments_found_count = @ + out.saved,
                           ![r].last =
                               Met(IF out.store_raises
                                   THEN "store_raise" ELSE "done",
                                   out.n, out.saved),
                           ![r].pc = IF last THEN "finalize"
                                     ELSE "analysis_loop"]
    /\ UNCHANGED <<events, links, pipeline_runs, stopper>>

\* final_stats and database.add_pipeline_run(final_stats);
\* fault: add_pipeline_run raises
Finalize(r, fault) ==
    LET me == runs[r] IN
    /\ me.pc = "finalize"
    /\ IF fault
       THEN /\ runs' = [runs EXCEPT ![r].pc = "except"]
            /\ UNCHANGED pipeline_runs
       ELSE /\ pipeline_runs' =
                   add_pipeline_run(r, me.new_links_found,
                                    me.articles_scraped_count,
                                    me.sentiments_found_count,
                                    run_status(me.kind, events[r]))
            /\ runs' = [runs EXCEPT ![r].pc = "cleanup"]
    /\ UNCHANGED <<tracker, events, links, articles, sentiments, stopper>>

\* except Exception as e: database.add_pipeline_run({"status": f"Failed: {e}"});
\* fault: this add_pipeline_run raises too, and the exception leaves the thread
Except(r, fault) ==
    /\ runs[r].pc = "except"
    /\ pipeline_runs' = IF fault THEN pipeline_runs
                        ELSE add_pipeline_run(r, 0, 0, 0, "Failed")
    /\ runs' = [runs EXCEPT ![r].pc = "cleanup"]
    /\ UNCHANGED <<tracker, events, links, articles, sentiments, stopper>>

\* the reset at the end of the try body instead of in finally: a run that
\* failed ends without it
Cleanup_not_in_finally(r) ==
    /\ runs[r].pc = "cleanup"
    /\ tracker' = IF \E k \in 1..Len(pipeline_runs) :
                        pipeline_runs[k].run = r /\
                        pipeline_runs[k].status # "Failed"
                  THEN IdleState ELSE tracker
    /\ runs' = [runs EXCEPT ![r] = DoneRun(runs[r].kind)]
    /\ UNCHANGED <<events, links, articles, sentiments, pipeline_runs,
                   stopper>>

\* finally: pipeline_status_tracker.update({... idle ...})
Cleanup(r) ==
    /\ runs[r].pc = "cleanup"
    /\ tracker' = IdleState
    /\ runs' = [runs EXCEPT ![r] = DoneRun(runs[r].kind)]
    /\ UNCHANGED <<events, links, articles, sentiments, pipeline_runs,
                   stopper>>

(***************************************************************************)
(* What the outside does in one call                                       *)
(***************************************************************************)
None == [given |-> FALSE, names |-> <<>>]
Names(s) == [given |-> TRUE, names |-> s]
Raises == [raise |-> TRUE, urls |-> <<>>]
Returns(s) == [raise |-> FALSE, urls |-> s]
NoContent == [kind |-> "none", url |-> 0, text |-> "N/A"]
FetchRaises == [kind |-> "raise", url |-> 0, text |-> "N/A"]
Content(u, t) == [kind |-> "data", url |-> u, text |-> t]

\* one item of the extraction stage: the extractor returns n entities
\* (analyze_text_for_sentiment catches every exception of the model call
\* and returns no entity then); saved of them are stored when a store call
\* of the item raises (add_usage_log, add_sentiment,
\* mark_article_as_analyzed) or, if none raises, all
Extracted(n, saved, store_raises) ==
    [n |-> n, saved |-> saved, store_raises |-> store_raises]
ItemOutcomes ==
    {Extracted(n, n, FALSE) : n \in 0..MaxEnt} \cup
    UNION {{Extracted(n, k, TRUE) : k \in 0..n} : n \in 0..MaxEnt}

Codes == {"202", "400", "404", "409", "500", "pending", "skipped", "started"}

\* a trigger request or a firing of the scheduler, and its outcome
Called(sel) ==
    [called |-> TRUE, given |-> sel.given, names |-> sel.names,
     mods |-> get_scraper_modules(sel)]

Admission(sels) ==
    /\ \E code \in Codes :
          \/ /\ \E sel \in sels :
                   /\ trigger_pipeline(sel, code)
                   /\ resolved' = IF code = "409" THEN NoCall
                                                ELSE Called(sel)
             /\ resp' = [op |-> "trigger", code |-> code]
          \/ /\ scheduled_pipeline_run(code)
             /\ resolved' = IF code = "skipped" THEN NoCall
                                                ELSE Called(None)
             /\ resp' = [op |-> "scheduled", code |-> code]
    /\ status_copy' = NoCopy
    /\ last_run' = NoRow
    /\ UNCHANGED <<world, scrapers_dir, scraper_cache, scans, schedule, now>>

\* a stop request, and its outcome
Cancel ==
    /\ \E code \in Codes :
          \/ /\ stop_pipeline_check(code)
             /\ resp' = [op |-> "stop", code |-> code]
          \/ /\ stop_pipeline_set(code)
             /\ resp' = [op |-> "stop", code |-> code]
    /\ status_copy' = NoCopy
    /\ resolved' = NoCall
    /\ last_run' = NoRow
    /\ UNCHANGED <<world, scrapers_dir, scraper_cache, scans, schedule, now>>

\* a status query
StatusQuery ==
    /\ get_pipeline_status
    /\ resp' = [op |-> "status", code |-> "200"]
    /\ resolved' = NoCall
    /\ last_run' = NoRow
    /\ UNCHANGED <<world, scrapers_dir, scraper_cache, scans, schedule, now>>

\* a last-run query
LastRunQuery ==
    /\ \E k \in 0..Len(pipeline_runs), code \in {"200", "404"} :
          /\ get_last_run_stats(k, code)
          /\ resp' = [op |-> "last_run", code |-> code]
    /\ status_copy' = NoCopy
    /\ resolved' = NoCall
    /\ UNCHANGED <<world, scrapers_dir, scraper_cache, scans, schedule, now>>

\* a second passes
Tick ==
    /\ now < MaxClock
    /\ now' = now + 1
    /\ resp' = [op |-> "none", code |-> "none"]
    /\ status_copy' = NoCopy
    /\ resolved' = NoCall
    /\ last_run' = NoRow
    /\ UNCHANGED <<tracker, events, runs, links, articles, sentiments,
                   pipeline_runs, stopper, world, scrapers_dir,
                   scraper_cache, scans, schedule>>

\* one step of run r
RunStep(r, urlOuts, fetchOuts) ==
    /\ \/ SetRunning(r)
       \/ SetEvent(r)
       \/ ScrapeInit(r)
       \/ \E out \in urlOuts : LinkIter(r, out)
       \/ \E fault \in BOOLEAN : ArticlesInit(r, fault)
       \/ \E out \in fetchOuts : ArticleIter(r, out)
       \/ \E ok, fault \in BOOLEAN : AnalysisInit(r, ok, fault)
       \/ \E out \in ItemOutcomes : AnalysisIter(r, out)
       \/ \E fault \in BOOLEAN : Finalize(r, fault)
       \/ \E fault \in BOOLEAN : Except(r, fault)
       \/ Cleanup(r)
    /\ resp' = [op |-> "none", code |-> "none"]
    /\ status_copy' = NoCopy
    /\ resolved' = NoCall
    /\ last_run' = NoRow
    /\ UNCHANGED <<world, scrapers_dir, scraper_cache, scans, schedule, now>>

UrlLists ==
    UNION {[1..n -> Urls] : n \in 0..MaxPerCall}

\* every selection, every list an adapter can return, every fetch result
Selections == {None, Names(<<"A">>), Names(<<"B", "Z">>), Names(<<"Z">>)}
UrlOutcomes == {Raises} \cup {Returns(s) : s \in UrlLists}
FetchOutcomes ==
    {NoContent, FetchRaises} \cup
    {Content(u, t) : u \in Urls, t \in {"ok", "N/A", ""}}

\* no trigger arrives between an admission and that run's first statement,
\* and MaxSpaced runs are admitted in all
Spaced ==
    /\ \A r \in RunIds : runs[r].pc # "set_running"
    /\ \/ tracker.is_running
       \/ Cardinality({r \in RunIds : runs[r].kind # "none"}) < MaxSpaced

\* Requests spaced apart: the system as it runs when triggers do not race.
Next ==
    \/ Spaced /\ Admission(Selections)
    \/ Cancel
    \/ \E r \in RunIds : RunStep(r, UrlOutcomes, FetchOutcomes)

Spec == InitStored /\ [][Next]_vars

\* Racing triggers, with little to scrape: one adapter list, one locator.
RaceSelections == {Names(<<"A">>)}
RaceUrlOutcomes == {Returns(<<1>>)}
RaceFetchOutcomes == {Content(1, "ok")}

NextRace ==
    \/ Admission(RaceSelections)
    \/ \E r \in RunIds : RunStep(r, RaceUrlOutcomes, RaceFetchOutcomes)

SpecRace == Init /\ [][NextRace]_vars

\* Spaced triggers on an empty database, one locator on the web.
FewSelections == {None, Names(<<"A">>)}
FewUrlOutcomes == {Raises, Returns(<<>>), Returns(<<1>>)}
FewFetchOutcomes == {NoContent, FetchRaises, Content(1, "ok")}

NextFew ==
    \/ Spaced /\ Admission(FewSelections)
    \/ Cancel
    \/ \E r \in RunIds : RunStep(r, FewUrlOutcomes, FewFetchOutcomes)

\* Threads are scheduled fairly: a run that can take a step takes it.
FairSpec ==
    /\ Init
    /\ [][NextFew]_vars
    /\ \A r \in RunIds : WF_vars(RunStep(r, FewUrlOutcomes, FewFetchOutcomes))

\* The same with status queries at any moment.
NextStatus ==
    \/ Spaced /\ Admission(FewSelections)
    \/ Cancel
    \/ StatusQuery
    \/ \E r \in RunIds : RunStep(r, FewUrlOutcomes, FewFetchOutcomes)

SpecStatus == Init /\ [][NextStatus]_vars

\* Every request of at most MaxNames names, two of them registered, with
\* nothing to scrape.
RequestNames == {"A", "B", "Z"}
ResolveSelections ==
    {None} \cup
    {Names(s) : s \in UNION {[1..n -> RequestNames] : n \in 0..MaxNames}}
ResolveUrlOutcomes == {Returns(<<>>)}
ResolveFetchOutcomes == {NoContent}

NextResolve ==
    \/ Spaced /\ Admission(ResolveSelections)
    \/ \E r \in RunIds : RunStep(r, ResolveUrlOutcomes, ResolveFetchOutcomes)

SpecResolve == Init /\ [][NextResolve]_vars

\* The registry alone, from a process that has not discovered yet, over
\* every directory of at most MaxFiles files: two adapters, an adapter
\* whose SOURCE_NAME is the empty string, modules that lack one of the
\* three attributes, a module whose import raises ImportError and one whose
\* import raises another exception.
Candidates ==
    {Adapter("A"), Adapter("B"), Adapter(""),
     Candidate("ok", FALSE, "", TRUE, TRUE),
     Candidate("ok", TRUE, "A", FALSE, TRUE),
     Candidate("ok", TRUE, "B", TRUE, FALSE),
     Candidate("ImportError", FALSE, "", FALSE, FALSE),
     Candidate("Error", FALSE, "", FALSE, FALSE)}
Dirs == UNION {[1..n -> Candidates] : n \in 0..MaxFiles}

InitDiscover ==
    /\ tracker = IdleState
    /\ events = [r \in RunIds |-> FALSE]
    /\ runs = [r \in RunIds |-> NoRun]
    /\ links = <<>>
    /\ articles = <<>>
    /\ sentiments = <<>>
    /\ pipeline_runs = <<>>
    /\ stopper = 0
    /\ resp = [op |-> "none", code |-> "none"]
    /\ status_copy = NoCopy
    /\ resolved = NoCall
    /\ world = AnyWorld
    /\ scrapers_dir \in Dirs
    /\ scraper_cache = <<>>
    /\ scans = 0
    /\ schedule = [stored |-> DefaultTime, hour |-> 1, minute |-> 0]
    /\ now = 0
    /\ last_run = NoRow

\* get_scraper_modules on a cache: every module, or for each requested
\* name the module registered under it, if there is one
RECURSIVE SelectFrom(_, _)
SelectFrom(cache, names) ==
    IF names = <<>> THEN <<>>
    ELSE LET hit == SelectSeq(cache, LAMBDA e : e.name = Head(names))
         IN  hit \o SelectFrom(cache, Tail(names))

RegistryCodes == {"cached", "scanned", "raised"}

\* what a call of the registry leaves alone
RegistryFrame ==
    /\ status_copy' = NoCopy
    /\ last_run' = NoRow
    /\ UNCHANGED <<tracker, events, runs, links, articles, sentiments,
                   pipeline_runs, stopper, world, scrapers_dir, schedule,
                   now>>

\* a call of discover_scrapers()
Discover ==
    /\ \E code \in RegistryCodes :
          /\ discover_scrapers(code)
          /\ resp' = [op |-> "discover", code |-> code]
    /\ resolved' = NoCall
    /\ RegistryFrame

\* a call of get_all_scraper_names(): discover_scrapers(), then its keys
ListNames ==
    /\ \E code \in RegistryCodes :
          /\ discover_scrapers(code)
          /\ resp' = [op |-> "list", code |-> code]
    /\ resolved' = NoCall
    /\ RegistryFrame

\* a call of get_scraper_modules(names): discover_scrapers(), then the
\* selection from what it returned
Resolve(sels) ==
    /\ \E code \in RegistryCodes, sel \in sels :
          /\ discover_scrapers(code)
          /\ resp' = [op |-> "resolve", code |-> code]
          /\ resolved' =
                 IF code = "raised" THEN NoCall
                 ELSE [called |-> TRUE, given |-> sel.given,
                       names |-> sel.names,
                       mods |-> IF sel.given
                                THEN SelectFrom(scraper_cache', sel.names)
                                ELSE scraper_cache']
    /\ RegistryFrame

DiscoverSelections == {None, Names(<<"A">>), Names(<<"B", "A">>)}

NextDiscover ==
    \/ Discover
    \/ ListNames
    \/ Resolve(DiscoverSelections)

SpecDiscover == InitDiscover /\ [][NextDiscover]_vars

\* Schedule requests alone: texts that are times of day, texts that are
\* nearly so, no text.
Hhmm(a, b, c, d) == <<a, b, ":", c, d>>
TimeInputs ==
    {NoTime, NotText, Text(<<>>)} \cup
    {Text(t) : t \in
        {Hhmm("0", "0", "0", "0"), Hhmm("2", "3", "5", "9"),
         Hhmm("0", "9", "0", "5"), Hhmm("1", "9", "3", "0"),
         Hhmm("2", "0", "0", "0"), Hhmm("0", "7", "4", "5"),
         Hhmm("1", "2", "3", "0"), Hhmm("1", "2", "3", "0") \o <<"\n">>,
         Hhmm("2", "4", "0", "0"), Hhmm("1", "2", "6", "0"),
         Hhmm("3", "0", "1", "5"), Hhmm("x", "2", "3", "0"),
         <<"7", ":", "0", "5">>, <<"1", "2", ":", "3">>,
         <<"1", "2", "3", "0">>, <<"1", "2", "-", "3", "0">>,
         Hhmm("1", "2", "3", "0") \o <<"x">>,
         Hhmm("1", "2", "3", "0") \o <<"\n", "\n">>,
         <<" ">> \o Hhmm("1", "2", "3", "0")}}

\* a schedule request, and its outcome
Configure ==
    /\ \E inp \in TimeInputs, store_raises, job_raises \in BOOLEAN,
          code \in {"200", "400", "500"} :
          /\ configure_schedule(inp, store_raises, job_raises, code)
          /\ resp' = [op |-> "configure", code |-> code, arg |-> inp]
    /\ status_copy' = NoCopy
    /\ resolved' = NoCall
    /\ last_run' = NoRow
    /\ UNCHANGED <<tracker, events, runs, links, articles, sentiments,
                   pipeline_runs, stopper, world, scrapers_dir,
                   scraper_cache, scans, now>>

NextSchedule == Configure

SpecSchedule == Init /\ [][NextSchedule]_vars

\* Two runs one after the other on an empty database, in a world where an
\* adapter returns the same list on every call and a locator has the same
\* content on every fetch; nobody cancels.
MaxTwice == 2
TwiceSelections == {None}
TwiceUrlOutcomes == {Raises, Returns(<<>>), Returns(<<1>>), Returns(<<2, 1>>)}
TwiceFetchOutcomes == {NoContent, Content(1, "ok"), Content(2, "ok")}
Worlds ==
    {[fixed |-> TRUE, urls |-> u, content |-> c] :
        u \in [Range(all_scrapers) -> TwiceUrlOutcomes],
        c \in [Urls -> TwiceFetchOutcomes]}

InitTwice ==
    /\ tracker = IdleState
    /\ events = [r \in RunIds |-> FALSE]
    /\ runs = [r \in RunIds |-> NoRun]
    /\ links = <<>>
    /\ articles = <<>>
    /\ sentiments = <<>>
    /\ pipeline_runs = <<>>
    /\ stopper = 0
    /\ resp = [op |-> "none", code |-> "none"]
    /\ status_copy = NoCopy
    /\ resolved = NoCall
    /\ world \in Worlds
    /\ Started

\* what the adapter that run r is about to call returns in this world
AdapterSays(r) ==
    IF runs[r].pc = "link_loop" /\ runs[r].i < Len(runs[r].mods)
    THEN {world.urls[runs[r].mods[runs[r].i + 1]]}
    ELSE {}

\* what the fetch that run r is about to make returns in this world
FetchSays(r) ==
    IF runs[r].pc = "article_loop" /\ runs[r].i < Len(runs[r].links_to_scrape)
    THEN {world.content[links[runs[r].links_to_scrape[runs[r].i + 1]].url]}
    ELSE {}

SpacedTwice ==
    /\ \A r \in RunIds : runs[r].pc # "set_running"
    /\ \/ tracker.is_running
       \/ Cardinality({r \in RunIds : runs[r].kind # "none"}) < MaxTwice

NextTwice ==
    \/ SpacedTwice /\ Admission(TwiceSelections)
    \/ \E r \in RunIds : RunStep(r, AdapterSays(r), FetchSays(r))

SpecTwice == InitTwice /\ [][NextTwice]_vars

\* Two runs one after the other with nothing to scrape, the clock, and
\* last-run queries at any moment.
LastSelections == {Names(<<"A">>)}
LastUrlOutcomes == {Returns(<<>>)}
LastFetchOutcomes == {NoContent}

NextLast ==
    \/ SpacedTwice /\ Admission(LastSelections)
    \/ LastRunQuery
    \/ Tick
    \/ \E r \in RunIds : RunStep(r, LastUrlOutcomes, LastFetchOutcomes)

SpecLast == Init /\ [][NextLast]_vars

\* Two runs one after the other in one process, with stop requests and
\* status queries at any moment; one adapter, one locator.
AgainSelections == {Names(<<"A">>)}
AgainUrlOutcomes == {Returns(<<>>), Returns(<<1>>)}
AgainFetchOutcomes == {NoContent, Content(1, "ok")}

NextAgain ==
    \/ SpacedTwice /\ Admission(AgainSelections)
    \/ Cancel
    \/ StatusQuery
    \/ \E r \in RunIds : RunStep(r, AgainUrlOutcomes, AgainFetchOutcomes)

SpecAgain == Init /\ [][NextAgain]_vars

\* Two runs one after the other in one process, each with one of the two
\* adapters or, for a scheduled run, with both; one locator, whose fetch
\* returns nothing, raises or returns content; stop requests at any moment.
RetrySelections == {Names(<<"A">>), Names(<<"B">>)}
RetryUrlOutcomes == {Returns(<<>>), Returns(<<1>>)}
RetryFetchOutcomes == {NoContent, FetchRaises, Content(1, "ok")}

NextRetry ==
    \/ SpacedTwice /\ Admission(RetrySelections)
    \/ Cancel
    \/ \E r \in RunIds : RunStep(r, RetryUrlOutcomes, RetryFetchOutcomes)

SpecRetry == Init /\ [][NextRetry]_vars

(***************************************************************************)
(* Properties                                                              *)
(***************************************************************************)
InFlight(r) == runs[r].pc \notin {"none", "done"}
AcqPcs == {"link_loop", "article_loop"}
ExtractPcs == {"analysis_init", "analysis_loop"}
StagePcs == {"link_loop", "article_loop", "analysis_loop"}

\* the summaries run r wrote
SummariesOf(r) ==
    {k \in 1..Len(pipeline_runs) : pipeline_runs[k].run = r}

\* run r appends a summary in this step
Writes(r) ==
    /\ Len(pipeline_runs') = Len(pipeline_runs) + 1
    /\ pipeline_runs'[Len(pipeline_runs')].run = r

Written == pipeline_runs'[Len(pipeline_runs')]

\* C1: single-flight -- at no instant are two runs inside a stage
\* (acquisition or extraction), however manual triggers and scheduler
\* firings interleave.
C1_SingleFlight ==
    Cardinality({r \in RunIds : runs[r].pc \in StagePcs}) <= 1

\* C2: a trigger request that finds is_running true answers 409 and
\* changes nothing: no JobState field (the cancellation handle included),
\* no run, no table.
C2_RejectedTriggerChangesNothing ==
    [][(resp'.op = "trigger" /\ tracker.is_running) =>
          /\ resp'.code = "409"
          /\ UNCHANGED <<tracker, events, runs, links, articles, sentiments,
                         pipeline_runs, stopper>>]_vars

C2_Witness ==
    /\ resp = [op |-> "trigger", code |-> "409"]
    /\ tracker.stop_event # 0
    /\ \E r \in RunIds : runs[r].pc \in StagePcs

\* C3: every admitted run terminates, the step that ends it leaves JobState
\* in the idle shape, and is_running is false whenever no run is in flight.
C3_GuaranteedCleanup ==
    /\ \A r \in RunIds : [](InFlight(r) => <>(runs[r].pc = "done"))
    /\ [][\A r \in RunIds :
             (runs[r].pc # "done" /\ runs'[r].pc = "done") =>
                 tracker' = IdleState]_vars
    /\ []((\A r \in RunIds : ~InFlight(r)) => ~tracker.is_running)

\* a run whose summary could not be written at all has ended, JobState idle
C3_Witness ==
    /\ \E r \in RunIds : runs[r].pc = "done"
    /\ pipeline_runs = <<>>
    /\ tracker = IdleState

\* C4: a run that leaves the acquisition stage with its cancellation handle
\* set does not enter the extraction stage.
C4_CancelledAcquisitionSkipsExtraction ==
    [][\A r \in RunIds :
          (runs[r].pc \in AcqPcs /\ events[r]) =>
              runs'[r].pc \notin ExtractPcs]_vars

\* C5: the summary of a run that did not fail says "Stopped by user" exactly
\* when the run's cancellation handle is set as the summary is written.
C5_StatusReflectsCancellation ==
    [][\A r \in RunIds :
          (Writes(r) /\ Written.status # "Failed") =>
              (Written.status = "Stopped by user" <=> events[r])]_vars

\* C6: every admitted run has appended exactly one summary when it reaches
\* its cleanup, and still has exactly that one when it has ended.
C6_ExactlyOneSummary ==
    \A r \in RunIds :
        runs[r].pc \in {"cleanup", "done"} =>
            Cardinality(SummariesOf(r)) = 1

\* C7: an exception that leaves the run body ends in a summary
\* with status Failed, and the run goes on to its cleanup.
C7_FailureIsRecorded ==
    [][\A r \in RunIds :
          (runs[r].pc = "except" /\ runs'[r].pc # "except") =>
              /\ runs'[r].pc = "cleanup"
              /\ Writes(r)
              /\ Written.status = "Failed"]_vars

\* C8: the counts of a summary are the counts its run had accumulated when
\* the summary was written, also for a run that was cancelled or failed.
C8_PartialProgressPreserved ==
    [][\A r \in RunIds :
          Writes(r) =>
              /\ Written.new_links_found = runs[r].new_links_found
              /\ Written.articles_scraped = runs[r].articles_scraped_count
              /\ Written.entities_analyzed =
                     runs[r].sentiments_found_count]_vars

\* C9: when the extractor cannot be constructed the stage adds no result,
\* the summary's status reports the failure, and the summary carries the
\* acquisition counts.
C9_ConstructionFailureReported ==
    \A r \in RunIds :
        (runs[r].pc = "cleanup" /\ runs[r].analyzer = "failed") =>
            \A k \in SummariesOf(r) :
                pipeline_runs[k].status # "Failed" =>
                    /\ pipeline_runs[k].entities_analyzed = 0
                    /\ pipeline_runs[k].new_links_found =
                           runs[r].new_links_found
                    /\ pipeline_runs[k].status \notin
                           {"Completed", "Stopped by user"}

C11_AcquisitionIdempotent ==
    \A r \in RunIds :
        (/\ runs[r].pc \in {"analysis_init", "analysis_loop", "finalize"}
         /\ \E k \in 1..Len(pipeline_runs) :
                /\ pipeline_runs[k].run # r
                /\ pipeline_runs[k].status = "Completed") =>
            /\ runs[r].new_links_found = 0
            /\ runs[r].articles_scraped_count = 0
            /\ Len(links) = Cardinality(runs[r].base)
            /\ Len(articles) = runs[r].base_articles

\* the item that run r's extraction loop visits in this step
Visits(r, id) ==
    /\ runs[r].pc = "analysis_loop"
    /\ runs'[r].i = runs[r].i + 1
    /\ id = runs[r].articles_to_analyze[runs[r].i + 1]

\* C12: an item for which the extractor returned no entity (and no call of
\* the iteration raised) is marked analysed by that iteration; an analysed
\* item stays analysed; a later extraction stage does not select it, and
\* the extractor is only called on items that are not analysed.
C12_ZeroResultsMarkedOnce ==
    [][/\ \A r \in RunIds : \A id \in 1..Len(articles) :
             Visits(r, id) =>
                 /\ ~articles[id].is_analyzed
                 /\ (runs'[r].last = Met("done", 0, 0)) =>
                        articles'[id].is_analyzed
       /\ \A id \in 1..Len(articles) :
             articles[id].is_analyzed =>
                 (Len(articles') >= id /\ articles'[id].is_analyzed)
       /\ \A r \in RunIds :
             (runs[r].pc = "analysis_init" /\ runs'[r].pc # "analysis_init") =>
                 \A id \in Range(runs'[r].articles_to_analyze) :
                     ~articles[id].is_analyzed]_vars

\* a second run's extraction stage has selected its items, and an item
\* that the first run marked with no entity found is not among them
C12_Witness ==
    \E r \in RunIds : \E id \in 1..Len(articles) :
        /\ runs[r].pc \in {"analysis_loop", "finalize"}
        /\ runs[r].analyzer = "ok"
        /\ \E k \in 1..Len(pipeline_runs) : pipeline_runs[k].run # r
        /\ articles[id].is_analyzed
        /\ id \notin Range(sentiments)
        /\ id \notin Range(runs[r].articles_to_analyze)
        /\ runs[r].base_articles >= id

\* C13: an item for which a call raises inside the loop body stays not
\* analysed and selectable, and the loop goes on: it ends only after its
\* last item or on a set cancellation handle; an item whose calls all
\* return is marked analysed; and the summary written after the stage by a
\* run that was not cancelled says "Completed".
C13_ItemFailureIsolated ==
    [][\A r \in RunIds :
          /\ \A id \in 1..Len(articles) :
                Visits(r, id) =>
                    /\ runs'[r].last.tag = "store_raise" =>
                          /\ ~articles'[id].is_analyzed
                          /\ id \in Range(get_unanalyzed_articles')
                    /\ runs'[r].last.tag = "done" =>
                          articles'[id].is_analyzed
          /\ (runs[r].pc = "analysis_loop" /\
              runs'[r].pc # "analysis_loop") =>
                /\ runs'[r].pc = "finalize"
                /\ \/ events[r]
                   \/ runs'[r].i = Len(runs[r].articles_to_analyze)
          /\ (runs[r].pc = "finalize" /\ ~events[r] /\ Writes(r)) =>
                Written.status = "Completed"]_vars

\* a run visited two items: the first raised and is not analysed, the
\* second is analysed, and the summary says Completed
C13_Witness ==
    \E r \in RunIds :
        /\ runs[r].pc = "cleanup"
        /\ Len(runs[r].articles_to_analyze) = 2
        /\ runs[r].i = 2
        /\ ~articles[runs[r].articles_to_analyze[1]].is_analyzed
        /\ articles[runs[r].articles_to_analyze[2]].is_analyzed
        /\ \E k \in SummariesOf(r) : pipeline_runs[k].status = "Completed"

\* C14: once the cancellation handle is set while the extraction loop runs,
\* no further item is processed (no row is added, no item marked, the count
\* stands), and the summary of a run whose extraction loop stopped on the
\* handle after at least one item says "Stopped by user" and carries the
\* count of the rows saved until then.
C14_CancelDuringExtraction ==
    [][\A r \in RunIds :
          /\ (runs[r].pc = "analysis_loop" /\ events[r]) =>
                /\ UNCHANGED <<articles, sentiments>>
                /\ runs'[r].sentiments_found_count =
                       runs[r].sentiments_found_count
          /\ (/\ runs[r].pc = "finalize"
              /\ runs[r].last.tag = "stop"
              /\ runs[r].analyzer = "ok"
              /\ runs[r].i >= 1
              /\ Writes(r)) =>
                /\ Written.status = "Stopped by user"
                /\ Written.entities_analyzed =
                       runs[r].sentiments_found_count]_vars

\* C15: an adapter call that raises (get_article_urls, or
\* scrape_article_content) changes no table and sends the run on to the
\* next adapter / the next reference; no iteration of the two loops fails
\* the run; and a loop is left before its last element only when the
\* cancellation handle is set.
C15_AdapterFailureIsolated ==
    [][\A r \in RunIds :
          /\ (runs[r].pc = "link_loop" /\ runs[r].i < Len(runs[r].mods) /\
              runs'[r] # runs[r]) =>
                /\ runs'[r].pc # "except"
                /\ runs'[r].pc # "link_loop" => events[r]
                /\ ~events[r] =>
                      /\ runs'[r].i = runs[r].i + 1
                      /\ runs'[r].last.tag = "raise" => UNCHANGED links
          /\ (runs[r].pc = "article_loop" /\ runs'[r] # runs[r]) =>
                /\ runs'[r].pc # "except"
                /\ runs'[r].pc # "article_loop" =>
                      \/ events[r]
                      \/ runs'[r].i = Len(runs[r].links_to_scrape)
                /\ ~events[r] =>
                      /\ runs'[r].i = runs[r].i + 1
                      /\ runs'[r].last.tag = "raise" => UNCHANGED articles]_vars

\* the fetch of the first of two references raised, and the run is about
\* to fetch the second
C15_Witness ==
    \E r \in RunIds :
        /\ runs[r].pc = "article_loop"
        /\ Len(runs[r].links_to_scrape) = 2
        /\ runs[r].i = 1
        /\ runs[r].last.tag = "raise"
        /\ ~events[r]

\* C16: a stop request ends in one of two ways: 202, given only while a run
\* is active and with that run's cancellation handle set; or 404, given
\* only while no run is active and with nothing changed.
C16_CancelAcceptedOrNotFound ==
    [][(resp'.op = "stop" /\ resp'.code # "pending") =>
          \/ /\ resp'.code = "202"
             /\ tracker.is_running
             /\ tracker.stop_event # 0
             /\ events'[tracker.stop_event]
          \/ /\ resp'.code = "404"
             /\ ~tracker.is_running
             /\ UNCHANGED <<tracker, events, runs, links, articles,
                            sentiments, pipeline_runs, stopper>>]_vars

\* C17: the body of a status response has every JobState field but the
\* cancellation handle, each with the value JobState has at that moment,
\* and the query leaves JobState, handle included, as it is.
C17_SnapshotHidesHandle ==
    [][resp'.op = "status" =>
          /\ status_copy'.sent
          /\ DOMAIN status_copy'.body = DOMAIN tracker \ {"stop_event"}
          /\ \A k \in DOMAIN status_copy'.body :
                status_copy'.body[k] = tracker[k]
          /\ "stop_event" \in DOMAIN tracker'
          /\ UNCHANGED <<tracker, events, runs, links, articles, sentiments,
                         pipeline_runs, stopper>>]_vars

\* a status response during a run that is being stopped; the handle is
\* still installed
C17_Witness ==
    /\ resp.op = "status"
    /\ status_copy.sent
    /\ status_copy.body["status"] = "Stopping..."
    /\ status_copy.body["is_running"]
    /\ tracker.stop_event # 0
    /\ events[tracker.stop_event]

\* C18: a firing of the scheduler that finds is_running true is skipped: it
\* changes no JobState field, no run and no table; and a scheduled run
\* only ever starts in the step of a firing that found is_running false.
C18_ScheduledSkipChangesNothing ==
    [][/\ (resp'.op = "scheduled" /\ tracker.is_running) =>
             /\ resp'.code = "skipped"
             /\ UNCHANGED <<tracker, events, runs, links, articles,
                            sentiments, pipeline_runs, stopper>>
       /\ \A r \in RunIds :
             (runs[r].kind # "sched" /\ runs'[r].kind = "sched") =>
                 /\ resp' = [op |-> "scheduled", code |-> "started"]
                 /\ ~tracker.is_running]_vars

\* the scheduler fired while a manual run was inside a stage
C18_Witness ==
    /\ resp = [op |-> "scheduled", code |-> "skipped"]
    /\ \E r \in RunIds : runs[r].kind = "manual" /\ runs[r].pc \in StagePcs
    /\ \A r \in RunIds : runs[r].kind # "sched"

\* C19: at every moment of a sequence of runs, no two content items share a
\* locator, no two belong to the same reference, and every content item
\* belongs to a stored reference.
C19_OneContentPerReference ==
    /\ \A a, b \in 1..Len(articles) :
          a # b => /\ articles[a].url # articles[b].url
                   /\ articles[a].link_id # articles[b].link_id
    /\ \A a \in 1..Len(articles) : articles[a].link_id \in 1..Len(links)

\* a second run fetched content whose locator was stored by the first run:
\* the insert was ignored
C19_Witness ==
    \E r \in RunIds :
        /\ runs[r].pc = "finalize"
        /\ \E k \in 1..Len(pipeline_runs) : pipeline_runs[k].run # r
        /\ runs[r].last.tag = "data"
        /\ runs[r].base_articles >= 1
        /\ Len(articles) = runs[r].base_articles
        /\ Len(links) = 2

\* C20: a call of the resolver without names returns every registered
\* adapter; a call with names returns, in the order requested, exactly the
\* requested names that are registered (a repeated name repeated), so the
\* result is never longer than the request and can be empty.
C20_ResolveInRequestOrder ==
    resolved.called =>
        /\ ~resolved.given => resolved.mods = all_scrapers
        /\ resolved.given =>
              /\ resolved.mods =
                    SelectSeq(resolved.names,
                              LAMBDA n : n \in Range(all_scrapers))
              /\ Len(resolved.mods) <= Len(resolved.names)

\* a request that names the adapters in reverse order after an unknown name
C20_Witness ==
    /\ resolved.called
    /\ resolved.given
    /\ resolved.names = <<"Z", "B", "A">>
    /\ resolved.mods = <<"B", "A">>
    /\ resp = [op |-> "trigger", code |-> "202"]

\* C21: once a call of discover_scrapers has returned, no later call of the
\* registry (discover, list, resolve) lists the directory again or changes
\* the cache, whatever the first discovery found.
C21_DiscoveryMemoized ==
    [][(scans >= 1 /\ ~ScanFrom(scrapers_dir, 1, <<>>).raised) =>
          UNCHANGED <<scans, scraper_cache>>]_vars

\* C22: every adapter in the cache comes from a module that has a
\* non-empty name and both capabilities; and once the directory has been
\* scanned, every file that loads and has a non-empty name and both
\* capabilities has its name in the cache, whatever the other files do.
C22_RegistryValid ==
    /\ \A k \in 1..Len(scraper_cache) :
          /\ scraper_cache[k].name # ""
          /\ HasRequired(scrapers_dir[scraper_cache[k].file])
    /\ scans >= 1 =>
          \A f \in 1..Len(scrapers_dir) :
              (/\ scrapers_dir[f].load = "ok"
               /\ HasRequired(scrapers_dir[f])
               /\ scrapers_dir[f].name # "") =>
                  \E k \in 1..Len(scraper_cache) :
                      scraper_cache[k].name = scrapers_dir[f].name

\* C23: a schedule request whose text matches the pattern leaves the stored
\* schedule equal to that text and the job's trigger at its hour and
\* minute; any other request is not answered 200 and leaves both as they
\* were.
C23_ScheduleSetOrRejected ==
    [][resp'.op = "configure" =>
          IF resp'.arg.given /\ resp'.arg.is_text /\
             TimeMatches(resp'.arg.text)
          THEN /\ schedule'.stored = resp'.arg.text
               /\ schedule'.hour = HourOf(resp'.arg.text)
               /\ schedule'.minute = MinuteOf(resp'.arg.text)
          ELSE /\ resp'.code # "200"
               /\ UNCHANGED schedule]_vars

\* C24: a last-run query answers 404 when pipeline_runs is empty, and
\* otherwise returns the row that was written last, also when the row
\* before it was written within the same second.
C24_LastRunIsLastWritten ==
    [][resp'.op = "last_run" =>
          IF pipeline_runs = <<>>
          THEN resp'.code = "404" /\ ~last_run'.found
          ELSE /\ resp'.code = "200"
               /\ last_run'.found
               /\ last_run'.id = Len(pipeline_runs)
               /\ last_run'.row = pipeline_runs[Len(pipeline_runs)]]_vars

\* run r calls an adapter or the extractor in this step: get_article_urls,
\* scrape_article_content or analyze_text_for_sentiment
MakesCall(r) ==
    /\ runs[r].pc \in StagePcs
    /\ runs'[r].i = runs[r].i + 1
    /\ runs'[r].last.tag \notin {"stop", "skip"}

\* C25: a step that a run takes with its cancellation handle set calls no
\* adapter and no extractor and changes no table of the stages; what the
\* run did before the handle was set stays.
C25_CancelBoundedByOneCall ==
    [][\A r \in RunIds :
          (events[r] /\ runs'[r] # runs[r]) =>
              /\ ~MakesCall(r)
              /\ UNCHANGED <<links, articles, sentiments>>
              /\ runs'[r].pc \notin StagePcs \/ runs'[r].pc # runs[r].pc]_vars

\* a manual run fetched the first of two references, then its handle was
\* set, and its loop stopped before the second
C25_Witness ==
    \E r \in RunIds :
        /\ runs[r].kind = "manual"
        /\ runs[r].pc = "finalize"
        /\ events[r]
        /\ runs[r].last.tag = "stop"
        /\ Len(runs[r].links_to_scrape) = 2
        /\ runs[r].i = 1

\* C26: while a run is in the reference loop and not stopped, JobState's
\* total is the number of selected adapters and, after each adapter has
\* been handled (it returned references, returned none, or raised), its
\* progress is the number of adapters handled so far.
C26_ProgressCountsAdapters ==
    \A r \in RunIds :
        (runs[r].pc = "link_loop" /\ runs[r].last.tag # "stop") =>
            /\ tracker.total = Len(runs[r].mods)
            /\ tracker.progress = runs[r].i

\* C27: in the content loop, a reference whose source has no adapter among
\* those selected for the run is passed over: no fetch is made, no article
\* is stored, the count stands, the reference is still without content
\* afterwards, and the loop goes on with the next reference.
C27_UnknownSourceSkipped ==
    [][\A r \in RunIds :
          (/\ runs[r].pc = "article_loop"
           /\ ~events[r]
           /\ runs'[r] # runs[r]
           /\ links[runs[r].links_to_scrape[runs[r].i + 1]].source
                  \notin Range(runs[r].mods)) =>
              /\ runs'[r].last.tag = "skip"
              /\ UNCHANGED <<links, articles>>
              /\ runs'[r].articles_scraped_count =
                     runs[r].articles_scraped_count
              /\ runs[r].links_to_scrape[runs[r].i + 1] \in
                     Range(get_unscraped_links')
              /\ runs'[r].i = runs[r].i + 1
              /\ runs'[r].i < Len(runs[r].links_to_scrape) =>
                     /\ runs'[r].pc = "article_loop"
                     /\ runs'[r].links_to_scrape = runs[r].links_to_scrape]_vars

\* a run of adapter B alone passed over a reference of source A and then
\* stored the content of a reference of B
C27_Witness ==
    \E r \in RunIds :
        /\ runs[r].mods = <<"B">>
        /\ Len(runs[r].links_to_scrape) = 2
        /\ runs[r].i = 2
        /\ runs[r].last.tag = "data"
        /\ runs[r].articles_scraped_count = 1
        /\ links[runs[r].links_to_scrape[1]].source = "A"
        /\ \A a \in 1..Len(articles) :
              articles[a].link_id # runs[r].links_to_scrape[1]
        /\ \E a \in 1..Len(articles) :
              articles[a].link_id = runs[r].links_to_scrape[2]

\* C30: the items an extraction stage selects are not analysed and have a
\* cleaned_text that is neither absent ("N/A") nor empty, and the
\* extractor is only ever called on such an item.
C30_OnlyNonEmptyTextExtracted ==
    [][\A r \in RunIds :
          /\ (runs[r].pc = "analysis_init" /\ runs'[r].pc # "analysis_init") =>
                \A id \in Range(runs'[r].articles_to_analyze) :
                    /\ ~articles[id].is_analyzed
                    /\ articles[id].text \notin {"N/A", ""}
          /\ \A id \in 1..Len(articles) :
                (Visits(r, id) /\ MakesCall(r)) =>
                    articles[id].text \notin {"N/A", ""}]_vars

\* the extraction stage of run r makes its selection in this step
Selects(r) ==
    /\ runs[r].pc = "analysis_init"
    /\ runs'[r].pc \in {"analysis_loop", "finalize"}
    /\ runs'[r].analyzer = "ok"

\* the loop of an extraction stage that is not cancelled: every step
\* calls the extractor on the next selected item, progress follows, and
\* the loop is left after the last item with progress equal to total
VisitsEachSelectedOnce(r) ==
    /\ Selects(r) =>
          /\ Len(runs'[r].articles_to_analyze) =
                 Cardinality(Range(runs'[r].articles_to_analyze))
          /\ tracker'.total = Len(runs'[r].articles_to_analyze)
          /\ tracker'.progress = 0
    /\ (runs[r].pc = "analysis_loop" /\ ~events[r] /\ runs'[r] # runs[r]) =>
          /\ MakesCall(r)
          /\ runs'[r].articles_to_analyze = runs[r].articles_to_analyze
          /\ tracker'.progress = runs'[r].i
          /\ tracker'.total = Len(runs[r].articles_to_analyze)
          /\ runs'[r].pc # "analysis_loop" =>
                /\ runs'[r].pc = "finalize"
                /\ runs'[r].i = Len(runs[r].articles_to_analyze)

\* C28 as stated: the items an extraction stage selects are all the items
\* that are not analysed at that moment, and the stage, if not cancelled,
\* visits each once and ends with progress equal to their number.
C28_AllUnprocessedVisited ==
    [][\A r \in RunIds :
          /\ Selects(r) =>
                Range(runs'[r].articles_to_analyze) =
                    {a \in 1..Len(articles) : ~articles[a].is_analyzed}
          /\ VisitsEachSelectedOnce(r)]_vars

\* C28, amended: the items an extraction stage selects are the items that
\* are not analysed and whose cleaned_text is not "N/A" at that moment, and
\* the stage, if not cancelled, visits each of them once, in order, and
\* ends with progress equal to their number.
C28_AllSelectableVisited ==
    [][\A r \in RunIds :
          /\ Selects(r) =>
                Range(runs'[r].articles_to_analyze) =
                    {a \in 1..Len(articles) :
                        ~articles[a].is_analyzed /\ articles[a].text # "N/A"}
          /\ VisitsEachSelectedOnce(r)]_vars

\* a stage that was not cancelled has ended after visiting the one item it
\* selected; an item whose text is "N/A" is still not analysed
C28_Witness ==
    \E r \in RunIds :
        /\ runs[r].pc = "finalize"
        /\ runs[r].analyzer = "ok"
        /\ ~events[r]
        /\ Len(runs[r].articles_to_analyze) = 1
        /\ runs[r].i = 1
        /\ tracker.progress = 1
        /\ tracker.total = 1
        /\ \E a \in 1..Len(articles) :
              articles[a].text = "N/A" /\ ~articles[a].is_analyzed

BeforeStage == {"set_running", "set_event", "scrape_init"}

\* C29: the handle of a run is unset when the run is accepted and until
\* the run has installed it; a handle is set only by a stop request that
\* read that very handle from JobState, so setting one run's handle never
\* sets another's; a run that has not begun its first stage finds progress,
\* total and current task at their idle values, its first stage begins by
\* setting progress to 0 and total to its own number of adapters, and a
\* status snapshot taken then shows those values.
C29_FreshHandleAndCounters ==
    [][/\ \A r \in RunIds :
             /\ runs'[r].pc \in {"set_running", "set_event"} => ~events'[r]
             /\ (~events[r] /\ events'[r]) =>
                    /\ stopper = r
                    /\ resp'.op = "stop"
                    /\ \A q \in RunIds \ {r} : events'[q] = events[q]
             /\ (runs[r].pc = "set_event" /\ runs'[r].pc # "set_event") =>
                    tracker'.stop_event = r
             /\ runs'[r].pc \in BeforeStage =>
                    /\ tracker'.progress = 0
                    /\ tracker'.total = 0
                    /\ tracker'.current_task = "N/A"
                    /\ status_copy'.sent =>
                          /\ status_copy'.body["progress"] = 0
                          /\ status_copy'.body["total"] = 0
             /\ (runs[r].pc = "scrape_init" /\ runs'[r].pc # "scrape_init") =>
                    /\ tracker'.progress = 0
                    /\ tracker'.total = Len(runs[r].mods)]_vars

\* a status snapshot of a second run that has not begun its first stage;
\* the first run fetched a reference and was cancelled afterwards
C29_Witness ==
    \E r, q \in RunIds :
        /\ runs[q].pc = "done"
        /\ events[q]
        /\ \E k \in SummariesOf(q) : pipeline_runs[k].articles_scraped = 1
        /\ runs[r].pc = "scrape_init"
        /\ tracker.stop_event = r
        /\ ~events[r]
        /\ status_copy.sent
        /\ status_copy.body["is_running"]
        /\ status_copy.body["progress"] = 0

\* C31: while a run whose handle is installed in JobState is running with
\* that handle set, JobState's status is "Stopping...", and so is the
\* status of a snapshot taken then.
C31_StoppingUntilIdle ==
    \A r \in RunIds :
        (tracker.is_running /\ tracker.stop_event = r /\ events[r]) =>
            /\ tracker.status = "Stopping..."
            /\ status_copy.sent => status_copy.body["status"] = "Stopping..."

\* C32: every name of the registry stands once in it, and stands for the
\* last valid candidate of that name in the directory; two valid candidates
\* of one name do not make the scan raise.
C32_LastOfNameWins ==
    /\ \A i, j \in 1..Len(scraper_cache) :
           scraper_cache[i].name = scraper_cache[j].name => i = j
    /\ \A i \in 1..Len(scraper_cache) :
           \A f \in 1..Len(scrapers_dir) :
               ( /\ scrapers_dir[f].load = "ok"
                 /\ HasRequired(scrapers_dir[f])
                 /\ scrapers_dir[f].name = scraper_cache[i].name )
               => f <= scraper_cache[i].file
    /\ (resp.op = "discover" /\ resp.code = "raised") =>
           \E f \in 1..Len(scrapers_dir) : scrapers_dir[f].load = "Error"

\* Two valid candidates named "A" were scanned and the registry holds the
\* second one.
C32_Witness ==
    /\ Len(scrapers_dir) = 2
    /\ scrapers_dir[1] = Adapter("A")
    /\ scrapers_dir[2] = Adapter("A")
    /\ scans > 0
    /\ scraper_cache = <<Entry("A", 2)>>

\* C33: whenever is_running is false, JobState has the idle shape: status
\* "Idle", progress 0, total 0, current task "N/A".
C33_IdleShape ==
    ~tracker.is_running =>
        /\ tracker.status = "Idle"
        /\ tracker.progress = 0
        /\ tracker.total = 0
        /\ tracker.current_task = "N/A"

\* C34: the progress of JobState, and of every snapshot of it, lies between
\* 0 and the total.
C34_ProgressWithinTotal ==
    /\ tracker.progress \in 0..tracker.total
    /\ status_copy.sent =>
           status_copy.body["progress"] \in 0..status_copy.body["total"]

\* A snapshot taken right after the content-fetch phase was set up, of a
\* run whose reference-discovery phase had gone through two adapters and
\* found one reference to fetch.
C34_Witness ==
    /\ status_copy.sent
    /\ status_copy.body["status"] = "Scraping articles"
    /\ status_copy.body["progress"] = 0
    /\ status_copy.body["total"] = 1
    /\ \E r \in RunIds :
           /\ runs[r].pc = "article_loop"
           /\ Len(runs[r].mods) = 2
           /\ runs[r].i = 0

\* C35: from the content-fetch phase on, a run's count of new content items
\* is the number of content items the store has gained since the run began
\* its acquisition stage.
C35_CountIsInserted ==
    \A r \in RunIds :
        runs[r].pc \in {"article_loop", "analysis_init", "analysis_loop",
                        "finalize"} =>
            runs[r].articles_scraped_count =
                Len(articles) - runs[r].base_articles

\* C36: a content item for which an iteration of the extraction stage has
\* persisted extraction results is marked processed by that iteration, so
\* no later selection of unprocessed items holds it.
C36_PersistedIsMarked ==
    \A r \in RunIds :
        ( /\ runs[r].pc \in {"analysis_loop", "finalize"}
          /\ runs[r].last.tag \in {"done", "store_raise"}
          /\ runs[r].last.saved > 0 )
        => LET id == runs[r].articles_to_analyze[runs[r].i] IN
           /\ articles[id].is_analyzed
           /\ id \notin Range(get_unanalyzed_articles)

\* C37: a trigger request that gets past the is_running test with a list of
\* names none of which is registered (the empty list among them) is answered
\* 400, and changes neither JobState nor the runs, the handles or the store.
C37_EmptySelectionRejected ==
    [][( /\ resp'.op = "trigger"
         /\ resolved'.called
         /\ resolved'.given
         /\ \A i \in 1..Len(resolved'.names) :
                resolved'.names[i] \notin Range(all_scrapers) )
       => /\ resp'.code = "400"
          /\ ~tracker'.is_running
          /\ UNCHANGED <<tracker, events, runs, links, articles, sentiments,
                         pipeline_runs, stopper>>]_vars

\* A trigger with the empty list was answered 400 and JobState is idle with
\* no run admitted.
C37_Witness ==
    /\ resp = [op |-> "trigger", code |-> "400"]
    /\ resolved.called
    /\ resolved.given
    /\ resolved.names = <<>>
    /\ resolved.mods = <<>>
    /\ tracker = IdleState
    /\ \A r \in RunIds : runs[r].kind = "none"


\* C38: after a schedule-configuration request, the stored schedule time,
\* read as start-up reads it, is the hour and minute of the live job.
C38_StoredIsLive ==
    resp.op = "configure" =>
        /\ HourOf(schedule.stored) = schedule.hour
        /\ MinuteOf(schedule.stored) = schedule.minute

\* C39: an iteration of the content-fetch phase whose fetch returns nothing
\* or raises adds no content item, leaves the run's count as it is and
\* leaves the reference without content item; a run that sets up its
\* content-fetch phase selects every reference without content item; and an
\* iteration on a reference whose source's adapter the run has selected
\* makes the fetch.
C39_FailedFetchRetried ==
    [][\A r \in RunIds :
          LET me == runs[r]
              fetched == /\ me.pc = "article_loop"
                         /\ runs'[r].i = me.i + 1
              id == me.links_to_scrape[me.i + 1]
          IN
          /\ (fetched /\ runs'[r].last.tag \in {"none", "raise"}) =>
                 /\ articles' = articles
                 /\ runs'[r].articles_scraped_count =
                        me.articles_scraped_count
                 /\ ~\E a \in 1..Len(articles') : articles'[a].link_id = id
          /\ ( /\ me.pc = "link_loop"
               /\ runs'[r].pc \notin {"link_loop", "except"}
               /\ ~events[r] ) =>
                 \A k \in 1..Len(links) :
                     (~\E a \in 1..Len(articles) : articles[a].link_id = k)
                     => k \in Range(runs'[r].links_to_scrape)
          /\ (fetched /\ links[id].source \in Range(me.mods)) =>
                 runs'[r].last.tag \in {"none", "raise", "data"}]_vars

\* The first run found a reference and got no content for it; the second
\* run, with the same adapter, found no new reference, fetched that one
\* again and stored its content.
C39_Witness ==
    \E r, q \in RunIds :
        /\ runs[q].pc = "done"
        /\ \E k \in SummariesOf(q) :
               /\ pipeline_runs[k].new_links_found = 1
               /\ pipeline_runs[k].articles_scraped = 0
        /\ runs[r].pc = "analysis_init"
        /\ runs[r].new_links_found = 0
        /\ runs[r].last.tag = "data"
        /\ runs[r].articles_scraped_count = 1
        /\ Len(articles) = 1
        /\ articles[1].link_id = 1

====
